---- MODULE Spec2Model ----
(***************************************************************************)
(* Model of github.com/debricked/cli:                                      *)
(*   - internal/scan/scanner.go: DebrickedScanner.Scan and the pipeline    *)
(*     scan (Resolve, Fingerprint, CallGraph, GroupFiles, Upload,          *)
(*     ReportSBOM), the option preparation (MapEnvToOptions,               *)
(*     UpdatedEmptyCommitName, SetWorkingDirectory) and the verdict loop;  *)
(*   - internal/file: DefaultExclusions, DefaultExclusionsFingerprint and  *)
(*     the path classifier Excluded.                                       *)
(*                                                                         *)
(* Strings are TLA+ strings, "" is Go's empty string.  An error value is   *)
(* the name of the Go error, "nil" is the nil error.  Collaborators that   *)
(* Scan reaches through interfaces (ci.IService, resolution.IResolver,     *)
(* fingerprint.IFingerprint, callgraph.IGenerator, file.IFinder,           *)
(* upload.IUploader, sbom.Reporter, the OS) answer nondeterministically.   *)
(***************************************************************************)
EXTENDS Integers, Sequences, FiniteSets, TLC

VARIABLES
    pc,                 \* position of the one thread of control
    isDebrickedOptions, \* whether the IOptions argument is a DebrickedOptions
    o,                  \* the options as the caller supplied them
    dOptions,           \* Scan's local copy of the options (mutated in place)
    e,                  \* the env.Env that ciService.Find() returned
    now,                \* time.Now().Unix() as read by GenerateCommitNameTimestamp (-1: never read)
    cwd,                \* the process's working directory
    chdirs,             \* number of successful os.Chdir calls
    enterprise,         \* what IsEnterpriseCustomer answered ("unknown": not asked)
    gitMetaObject,      \* the arguments git.NewMetaObject was built from
    log,                \* the collaborator calls made so far, in order
    scanErr,            \* the error a stage of scan returned ("nil": none)
    errStage,           \* the stage that returned it ("none": none)
    result,             \* the *upload.UploadResult Upload returned
    uploaderOptions,    \* the upload.DebrickedOptions handed to Upload
    rendered,           \* number of rule cards rendered
    failPipeline,       \* the local failPipeline of Scan
    verdict,            \* outcome of the final `if failPipeline` ("none": not evaluated)
    ret,                \* what Scan returned ("running": not yet)
    exclusions,         \* Excluded: argument
    inclusions,         \* Excluded: argument
    path,               \* Excluded: argument
    excluded,           \* Excluded: result
    envSet,             \* whether the exclusion override variable is set in the environment
    envValue,           \* its value: a sequence of pieces of text, "," being the comma
    exclusionsOut       \* Exclusions: result

scanVars == <<isDebrickedOptions, o, dOptions, e, now, cwd, chdirs, enterprise, gitMetaObject,
              log, scanErr, errStage, result, uploaderOptions, rendered,
              failPipeline, verdict, ret>>
exclVars == <<exclusions, inclusions, path, excluded>>
envVars == <<envSet, envValue, exclusionsOut>>
fileVars == <<exclVars, envVars>>
vars == <<pc, scanVars, fileVars>>

---------------------------------------------------------------------------
(* Bounds of the model *)

\* Largest value of the unix clock read by GenerateCommitNameTimestamp.
MaxClock == 1
\* Largest number of automation rules in an UploadResult.
MaxRules == 2
\* Largest number of patterns in an exclusion or an inclusion list.
MaxPatterns == 2

---------------------------------------------------------------------------
(* Errors *)

BadOptsErr == "BadOptsErr"
FailPipelineErr == "FailPipelineErr"
\* client.NoResErr: the client's "no result" sentinel.
NoResErr == "client.NoResErr"

---------------------------------------------------------------------------
(* Options and environment *)

\* The fields of DebrickedOptions that Scan itself reads or hands over by
\* name.  Verbose, Debug, Regenerate, VersionHint, NpmPreferred, the
\* timeouts, MinFingerprintContentLength, TagCommitAsRelease, Experimental,
\* Version and SBOMOutput are copied to the collaborators untouched.
ZeroOptions ==
    [Path |-> "", Resolve |-> FALSE, Fingerprint |-> FALSE, CallGraph |-> FALSE,
     SBOM |-> "", Exclusions |-> <<>>, Inclusions |-> <<>>,
     RepositoryName |-> "", CommitName |-> "", GenerateCommitName |-> FALSE,
     BranchName |-> "", CommitAuthor |-> "", RepositoryUrl |-> "",
     IntegrationName |-> "", JsonFilePath |-> "", PassOnTimeOut |-> FALSE]

\* env.Env{}: what Find returns when no CI service is detected.
ZeroEnv ==
    [Repository |-> "", Commit |-> "", Branch |-> "", Author |-> "",
     RepositoryUrl |-> "", Integration |-> "", Filepath |-> ""]

MapEnvToOptionsIgnoreCaller(opt, env) ==
    [opt EXCEPT
        !.RepositoryName = env.Repository,
        !.CommitName = env.Commit,
        !.BranchName = env.Branch,
        !.CommitAuthor = env.Author,
        !.RepositoryUrl = env.RepositoryUrl,
        !.IntegrationName = IF env.Integration # "" THEN env.Integration ELSE @,
        !.Path = IF env.Filepath # "" THEN env.Filepath ELSE @]

MapEnvToOptions(opt, env) ==
    [opt EXCEPT
        !.RepositoryName = IF @ = "" THEN env.Repository ELSE @,
        !.CommitName = IF @ = "" THEN env.Commit ELSE @,
        !.BranchName = IF @ = "" THEN env.Branch ELSE @,
        !.CommitAuthor = IF @ = "" THEN env.Author ELSE @,
        !.RepositoryUrl = IF @ = "" THEN env.RepositoryUrl ELSE @,
        !.IntegrationName = IF @ = "CLI" /\ env.Integration # "" THEN env.Integration ELSE @,
        !.Path = IF @ = "" /\ env.Filepath # "" THEN env.Filepath ELSE @]

GenerateCommitNameTimestamp(t) == "generated-" \o ToString(t)

UpdatedEmptyCommitNameAlways(opt, t) ==
    IF opt.GenerateCommitName
    THEN [opt EXCEPT !.CommitName = GenerateCommitNameTimestamp(t)]
    ELSE opt

UpdatedEmptyCommitName(opt, t) ==
    IF opt.GenerateCommitName /\ opt.CommitName = ""
    THEN [opt EXCEPT !.CommitName = GenerateCommitNameTimestamp(t)]
    ELSE opt

\* filepath.Abs of a relative path: the path joined to the working directory.
Abs(wd, p) == IF p = "" THEN wd ELSE wd \o "/" \o p

SetWorkingDirectoryKeepPath(d) == d

\* The options after a successful SetWorkingDirectory.
SetWorkingDirectory(d) == [d EXCEPT !.Path = ""]

handleScanErrorAlwaysFail(err, passOnTimeOut) == err

handleScanError(err, passOnTimeOut) ==
    IF err = NoResErr /\ passOnTimeOut THEN "nil" ELSE err

\* One iteration of the verdict loop: the new value of failPipeline.
failPipelineStepAll(fp, rule) == fp \/ rule.Triggered

failPipelineStep(fp, rule) == fp \/ (rule.Triggered /\ rule.FailPipeline)

---------------------------------------------------------------------------
(* Inputs of the pipeline *)

Toggle == BOOLEAN

\* Options that vary what the preparation steps read.
SetupOptions ==
    { [ZeroOptions EXCEPT
          !.Path = p, !.CommitName = c, !.GenerateCommitName = g,
          !.IntegrationName = i,
          !.RepositoryName = "", !.BranchName = "main", !.CommitAuthor = "",
          !.RepositoryUrl = "url",
          !.Resolve = TRUE, !.Fingerprint = TRUE, !.CallGraph = TRUE,
          !.SBOM = "CycloneDX", !.JsonFilePath = "out.json",
          !.Exclusions = <<"**/x/**">>, !.Inclusions = <<"**/i">>]
      : p \in {"", "sub"}, c \in {"", "c0"}, g \in BOOLEAN, i \in {"CLI", "custom"} }

\* Options that vary which stages run and how failures are treated.
StageOptions ==
    { [ZeroOptions EXCEPT
          !.Path = "sub", !.CommitName = "c0", !.IntegrationName = "CLI",
          !.BranchName = "main", !.RepositoryUrl = "url",
          !.Resolve = r, !.Fingerprint = f, !.CallGraph = g, !.SBOM = s,
          !.JsonFilePath = j, !.PassOnTimeOut = t,
          !.Exclusions = <<"**/x/**">>, !.Inclusions = <<"**/i">>]
      : r \in Toggle, f \in Toggle, g \in Toggle, s \in {"", "CycloneDX"},
        j \in {"", "out.json"}, t \in Toggle }

ScanOptions == SetupOptions \cup StageOptions

\* What ciService.Find() may return: no CI service, or a CI service whose
\* commit and file path may be missing.
EnvSet ==
    {ZeroEnv} \cup
    { [Repository |-> "erepo", Commit |-> c, Branch |-> "ebranch", Author |-> "eauthor",
       RepositoryUrl |-> "eurl", Integration |-> "ci", Filepath |-> p]
      : c \in {"", "ecommit"}, p \in {"", "edir"} }

Rule == [Triggered : BOOLEAN, FailPipeline : BOOLEAN]

RECURSIVE SeqsUpTo(_, _)
SeqsUpTo(S, n) ==
    IF n = 0 THEN {<<>>}
    ELSE LET shorter == SeqsUpTo(S, n - 1)
         IN shorter \cup { Append(s, x) : s \in shorter, x \in S }

\* The results Upload may return.
UploadResults == [LongQueue : BOOLEAN, AutomationRules : SeqsUpTo(Rule, MaxRules)]

NoResult == [LongQueue |-> FALSE, AutomationRules |-> <<>>]
NoMeta == [Path |-> "", RepositoryName |-> "", CommitName |-> "", BranchName |-> "",
           CommitAuthor |-> "", RepositoryUrl |-> ""]
NoUploaderOptions == [GitMetaObject |-> NoMeta, IntegrationsName |-> ""]

---------------------------------------------------------------------------
(* The collaborator calls *)

Call(op, root, excl, incl) == [op |-> op, path |-> root, excl |-> excl, incl |-> incl]

Called(op) == \E i \in DOMAIN log : log[i].op = op
Calls(op) == Cardinality({ i \in DOMAIN log : log[i].op = op })

\* file.EXCLUDED_DIRS_FINGERPRINT
EXCLUDED_DIRS_FINGERPRINT ==
    <<"nbproject", "nbbuild", "nbdist", "node_modules", "__pycache__", "_yardoc",
      "eggs", "wheels", "htmlcov", "__pypackages__">>

\* file.EXCLUDED_DIRS_FINGERPRINT_RAW
EXCLUDED_DIRS_FINGERPRINT_RAW == <<"**/*.egg-info/**", "**/*venv/**">>

\* filepath.Join("**", dir, "**") with the separator "/"
JoinStars(dir) == "**/" \o dir \o "/**"

DefaultExclusionsFingerprint ==
    [i \in DOMAIN EXCLUDED_DIRS_FINGERPRINT |-> JoinStars(EXCLUDED_DIRS_FINGERPRINT[i])]
        \o EXCLUDED_DIRS_FINGERPRINT_RAW

DefaultExclusionsSorted ==
    <<JoinStars(".git"), JoinStars("node_modules"), JoinStars("obj"), JoinStars("vendor")>>

DefaultExclusions ==
    <<JoinStars("node_modules"), JoinStars("vendor"), JoinStars(".git"), JoinStars("obj")>>

\* fingerprint.DefaultInclusionsFingerprint(): its contents are not part of
\* the sources at hand; one opaque pattern stands for them.
DefaultInclusionsFingerprint == <<"<fingerprint default inclusions>">>

---------------------------------------------------------------------------
(* Scan *)

ScanIdle ==
    /\ dOptions = ZeroOptions
    /\ e = ZeroEnv
    /\ now = -1
    /\ cwd = "/wd"
    /\ chdirs = 0
    /\ enterprise = "unknown"
    /\ gitMetaObject = NoMeta
    /\ log = <<>>
    /\ scanErr = "nil"
    /\ errStage = "none"
    /\ result = NoResult
    /\ uploaderOptions = NoUploaderOptions
    /\ rendered = 0
    /\ failPipeline = FALSE
    /\ verdict = "none"
    /\ ret = "running"

ExcludedIdle ==
    /\ exclusions = <<>>
    /\ inclusions = <<>>
    /\ path = <<>>
    /\ excluded = FALSE

ExclusionsIdle ==
    /\ envSet = FALSE
    /\ envValue = <<>>
    /\ exclusionsOut = <<>>

Init ==
    /\ pc = "Scan"
    /\ \/ isDebrickedOptions = TRUE /\ o \in ScanOptions
       \/ isDebrickedOptions = FALSE /\ o = ZeroOptions
    /\ ScanIdle
    /\ ExcludedIdle
    /\ ExclusionsIdle

\* Scan returns v to its caller.
Return(v) == ret' = v /\ pc' = "done"

TypeAssertUnchecked ==
    /\ pc = "Scan"
    /\ dOptions' = o
    /\ pc' = "Find"
    /\ UNCHANGED <<isDebrickedOptions, o, e, now, cwd, chdirs, enterprise, gitMetaObject, log,
                   scanErr, errStage, result, uploaderOptions, rendered, failPipeline,
                   verdict, ret>>
    /\ UNCHANGED fileVars

\* dOptions, ok := o.(DebrickedOptions); if !ok { return BadOptsErr }
TypeAssert ==
    /\ pc = "Scan"
    /\ IF isDebrickedOptions
       THEN dOptions' = o /\ pc' = "Find" /\ UNCHANGED ret
       ELSE Return(BadOptsErr) /\ UNCHANGED dOptions
    /\ UNCHANGED <<isDebrickedOptions, o, e, now, cwd, chdirs, enterprise, gitMetaObject, log,
                   scanErr, errStage, result, uploaderOptions, rendered, failPipeline, verdict>>
    /\ UNCHANGED fileVars

\* e, _ := dScanner.ciService.Find()
Find ==
    /\ pc = "Find"
    /\ \E env \in EnvSet : e' = env
    /\ log' = Append(log, Call("ciService.Find", "", <<>>, <<>>))
    /\ pc' = "MapEnvToOptions"
    /\ UNCHANGED <<isDebrickedOptions, o, dOptions, now, cwd, chdirs, enterprise, gitMetaObject,
                   scanErr, errStage, result, uploaderOptions, rendered, failPipeline, verdict, ret>>
    /\ UNCHANGED fileVars

\* MapEnvToOptions(&dOptions, e)
MapEnv ==
    /\ pc = "MapEnvToOptions"
    /\ dOptions' = MapEnvToOptions(dOptions, e)
    /\ pc' = "UpdatedEmptyCommitName"
    /\ UNCHANGED <<isDebrickedOptions, o, e, now, cwd, chdirs, enterprise, gitMetaObject, log,
                   scanErr, errStage, result, uploaderOptions, rendered, failPipeline, verdict, ret>>
    /\ UNCHANGED fileVars

\* UpdatedEmptyCommitName(&dOptions); the clock is read only when a name is generated
CommitName ==
    /\ pc = "UpdatedEmptyCommitName"
    /\ \E t \in 0..MaxClock :
          /\ dOptions' = UpdatedEmptyCommitName(dOptions, t)
          /\ now' = IF UpdatedEmptyCommitName(dOptions, t) # dOptions THEN t ELSE now
    /\ pc' = "SetWorkingDirectory"
    /\ UNCHANGED <<isDebrickedOptions, o, e, cwd, chdirs, enterprise, gitMetaObject, log,
                   scanErr, errStage, result, uploaderOptions, rendered, failPipeline, verdict, ret>>
    /\ UNCHANGED fileVars

\* if err := SetWorkingDirectory(&dOptions); err != nil { return err }
SetWD ==
    /\ pc = "SetWorkingDirectory"
    /\ \E chdirErr \in {"nil", "ChdirErr"} :
          IF chdirErr = "nil"
          THEN /\ cwd' = Abs(cwd, dOptions.Path)
               /\ chdirs' = chdirs + 1
               /\ dOptions' = SetWorkingDirectory(dOptions)
               /\ pc' = "NewMetaObject"
               /\ UNCHANGED ret
          ELSE /\ Return(chdirErr)
               /\ UNCHANGED <<cwd, chdirs, dOptions>>
    /\ UNCHANGED <<isDebrickedOptions, o, e, now, enterprise, gitMetaObject, log,
                   scanErr, errStage, result, uploaderOptions, rendered, failPipeline, verdict>>
    /\ UNCHANGED fileVars

\* gitMetaObject, err := git.NewMetaObject(...); if err != nil { return err }
NewMetaObject ==
    /\ pc = "NewMetaObject"
    /\ log' = Append(log, Call("git.NewMetaObject", dOptions.Path, <<>>, <<>>))
    /\ \E gitErr \in {"nil", "GitErr"} :
          IF gitErr = "nil"
          THEN /\ gitMetaObject' =
                     [Path |-> dOptions.Path, RepositoryName |-> dOptions.RepositoryName,
                      CommitName |-> dOptions.CommitName, BranchName |-> dOptions.BranchName,
                      CommitAuthor |-> dOptions.CommitAuthor,
                      RepositoryUrl |-> dOptions.RepositoryUrl]
               /\ pc' = "scanResolve"
               /\ UNCHANGED ret
          ELSE /\ Return(gitErr)
               /\ UNCHANGED gitMetaObject
    /\ UNCHANGED <<isDebrickedOptions, o, dOptions, e, now, cwd, chdirs, enterprise,
                   scanErr, errStage, result, uploaderOptions, rendered, failPipeline, verdict>>
    /\ UNCHANGED fileVars

---------------------------------------------------------------------------
(* scan: the stages *)

\* Errors the collaborators may return.  The resolver, the fingerprinter, the
\* call graph generator and the finder are handed to the scanner as
\* independent objects and return errors of their own.  The uploader polls
\* the client for the result, and scanReportSBOM builds its sbom.Reporter
\* around the scanner's client: both can return the client's NoResErr.
ResolveErrs == {"ResolveErr"}
FingerprintErrs == {"FingerprintErr"}
ToFileErrs == {"ToFileErr"}
CallGraphErrs == {"CallGraphErr"}
GetGroupsErrs == {"GetGroupsErr"}
UploadErrs == {"UploadErr", NoResErr}
ReportSBOMErrs == {"ParseDetailsURLErr", "OrderErr", NoResErr}

PreUploadStages == {"Resolve", "Fingerprint", "CallGraph", "GroupFiles"}
Stages == PreUploadStages \cup {"Upload", "ReportSBOM"}

StageReturnsSwallow(stage, err, next) ==
    /\ pc' = next
    /\ scanErr' = err
    /\ errStage' = IF err = "nil" THEN errStage ELSE stage
    /\ UNCHANGED ret

\* A stage of scan returned err: scan goes on to `next` on nil; otherwise
\* scan returns (nil, err) and Scan returns handleScanError(err, PassOnTimeOut).
StageReturns(stage, err, next) ==
    IF err = "nil"
    THEN /\ pc' = next
         /\ UNCHANGED <<scanErr, errStage, ret>>
    ELSE /\ scanErr' = err
         /\ errStage' = stage
         /\ Return(handleScanError(err, dOptions.PassOnTimeOut))

scanResolveAlways ==
    /\ pc = "scanResolve"
    /\ log' = Append(log, Call("Resolve", dOptions.Path, dOptions.Exclusions,
                               dOptions.Inclusions))
    /\ \E resErr \in {"nil"} \cup ResolveErrs :
          StageReturns("Resolve", resErr, "scanFingerprint")
    /\ UNCHANGED <<isDebrickedOptions, o, dOptions, e, now, cwd, chdirs, enterprise, gitMetaObject,
                   result, uploaderOptions, rendered, failPipeline, verdict>>
    /\ UNCHANGED fileVars

scanResolve ==
    /\ pc = "scanResolve"
    /\ IF dOptions.Resolve
       THEN /\ log' = Append(log, Call("Resolve", dOptions.Path, dOptions.Exclusions,
                                       dOptions.Inclusions))
            /\ \E resErr \in {"nil"} \cup ResolveErrs :
                  StageReturns("Resolve", resErr, "scanFingerprint")
       ELSE /\ StageReturns("Resolve", "nil", "scanFingerprint")
            /\ UNCHANGED log
    /\ UNCHANGED <<isDebrickedOptions, o, dOptions, e, now, cwd, chdirs, enterprise, gitMetaObject,
                   result, uploaderOptions, rendered, failPipeline, verdict>>
    /\ UNCHANGED fileVars

scanFingerprintUnchecked ==
    /\ pc = "scanFingerprint"
    /\ IF dOptions.Fingerprint
       THEN \E isEnterprise \in BOOLEAN :
              /\ enterprise' = IF isEnterprise THEN "yes" ELSE "no"
              /\ \E err \in {"nil"} \cup FingerprintErrs :
                    /\ log' = log \o
                          << Call("IsEnterpriseCustomer", "", <<>>, <<>>),
                             Call("FingerprintFiles", dOptions.Path,
                                  dOptions.Exclusions \o DefaultExclusionsFingerprint,
                                  dOptions.Inclusions \o DefaultInclusionsFingerprint) >>
                    /\ StageReturns("Fingerprint", err, "CallGraph")
       ELSE /\ StageReturns("Fingerprint", "nil", "CallGraph")
            /\ UNCHANGED <<log, enterprise>>
    /\ UNCHANGED <<isDebrickedOptions, o, dOptions, e, now, cwd, chdirs, gitMetaObject,
                   result, uploaderOptions, rendered, failPipeline, verdict>>
    /\ UNCHANGED fileVars

scanFingerprint ==
    /\ pc = "scanFingerprint"
    /\ IF dOptions.Fingerprint
       THEN \E isEnterprise \in BOOLEAN :
              /\ enterprise' = IF isEnterprise THEN "yes" ELSE "no"
              /\ IF ~isEnterprise
                 THEN /\ log' = Append(log, Call("IsEnterpriseCustomer", "", <<>>, <<>>))
                      /\ StageReturns("Fingerprint", "nil", "CallGraph")
                 ELSE \E err \in {"nil"} \cup FingerprintErrs :
                        IF err # "nil"
                        THEN /\ log' = log \o
                                  << Call("IsEnterpriseCustomer", "", <<>>, <<>>),
                                     Call("FingerprintFiles", dOptions.Path,
                                          dOptions.Exclusions \o DefaultExclusionsFingerprint,
                                          dOptions.Inclusions \o DefaultInclusionsFingerprint) >>
                             /\ StageReturns("Fingerprint", err, "CallGraph")
                        ELSE \E toFileErr \in {"nil"} \cup ToFileErrs :
                             /\ log' = log \o
                                  << Call("IsEnterpriseCustomer", "", <<>>, <<>>),
                                     Call("FingerprintFiles", dOptions.Path,
                                          dOptions.Exclusions \o DefaultExclusionsFingerprint,
                                          dOptions.Inclusions \o DefaultInclusionsFingerprint),
                                     Call("fingerprints.ToFile", "", <<>>, <<>>) >>
                             /\ StageReturns("Fingerprint", toFileErr, "CallGraph")
       ELSE /\ StageReturns("Fingerprint", "nil", "CallGraph")
            /\ UNCHANGED <<log, enterprise>>
    /\ UNCHANGED <<isDebrickedOptions, o, dOptions, e, now, cwd, chdirs, gitMetaObject,
                   result, uploaderOptions, rendered, failPipeline, verdict>>
    /\ UNCHANGED fileVars

\* if options.CallGraph { ... GenerateWithTimer(...) }
CallGraph ==
    /\ pc = "CallGraph"
    /\ IF dOptions.CallGraph
       THEN /\ log' = Append(log, Call("GenerateWithTimer",
                                       IF dOptions.Path = "" THEN "." ELSE dOptions.Path,
                                       dOptions.Exclusions, dOptions.Inclusions))
            /\ \E resErr \in {"nil"} \cup CallGraphErrs :
                  StageReturns("CallGraph", resErr, "GetGroups")
       ELSE /\ StageReturns("CallGraph", "nil", "GetGroups")
            /\ UNCHANGED log
    /\ UNCHANGED <<isDebrickedOptions, o, dOptions, e, now, cwd, chdirs, enterprise, gitMetaObject,
                   result, uploaderOptions, rendered, failPipeline, verdict>>
    /\ UNCHANGED fileVars

GetGroupsFingerprintDefaults ==
    /\ pc = "GetGroups"
    /\ log' = Append(log, Call("GetGroups", dOptions.Path,
                               dOptions.Exclusions \o DefaultExclusionsFingerprint,
                               dOptions.Inclusions \o DefaultInclusionsFingerprint))
    /\ \E err \in {"nil"} \cup GetGroupsErrs : StageReturns("GroupFiles", err, "Upload")
    /\ UNCHANGED <<isDebrickedOptions, o, dOptions, e, now, cwd, chdirs, enterprise, gitMetaObject,
                   result, uploaderOptions, rendered, failPipeline, verdict>>
    /\ UNCHANGED fileVars

\* fileGroups, err := dScanner.finder.GetGroups(...)
GetGroups ==
    /\ pc = "GetGroups"
    /\ log' = Append(log, Call("GetGroups", dOptions.Path, dOptions.Exclusions,
                               dOptions.Inclusions))
    /\ \E err \in {"nil"} \cup GetGroupsErrs : StageReturns("GroupFiles", err, "Upload")
    /\ UNCHANGED <<isDebrickedOptions, o, dOptions, e, now, cwd, chdirs, enterprise, gitMetaObject,
                   result, uploaderOptions, rendered, failPipeline, verdict>>
    /\ UNCHANGED fileVars

\* uploaderOptions := ...getDebrickedConfig(...)...; result, err := Upload(uploaderOptions)
Upload ==
    /\ pc = "Upload"
    /\ log' = log \o << Call("GetConfigPath", dOptions.Path, dOptions.Exclusions,
                             dOptions.Inclusions),
                        Call("Upload", "", <<>>, <<>>) >>
    /\ uploaderOptions' = [GitMetaObject |-> gitMetaObject,
                           IntegrationsName |-> dOptions.IntegrationName]
    /\ \/ \E err \in UploadErrs :
             /\ StageReturns("Upload", err, "scanReportSBOM")
             /\ UNCHANGED result
       \/ \E res \in UploadResults :
             /\ result' = res
             /\ StageReturns("Upload", "nil", "scanReportSBOM")
    /\ UNCHANGED <<isDebrickedOptions, o, dOptions, e, now, cwd, chdirs, enterprise, gitMetaObject,
                   rendered, failPipeline, verdict>>
    /\ UNCHANGED fileVars

\* err = dScanner.scanReportSBOM(options, result.DetailsUrl); then return result, nil
scanReportSBOM ==
    /\ pc = "scanReportSBOM"
    /\ IF dOptions.SBOM = ""
       THEN /\ StageReturns("ReportSBOM", "nil", "LongQueue")
            /\ UNCHANGED log
       ELSE /\ log' = Append(log, Call("ReportSBOM", "", <<>>, <<>>))
            /\ \E err \in {"nil"} \cup ReportSBOMErrs :
                  StageReturns("ReportSBOM", err, "LongQueue")
    /\ UNCHANGED <<isDebrickedOptions, o, dOptions, e, now, cwd, chdirs, enterprise, gitMetaObject,
                   result, uploaderOptions, rendered, failPipeline, verdict>>
    /\ UNCHANGED fileVars

---------------------------------------------------------------------------
(* Scan: after scan returned a result *)

LongQueueIgnored ==
    /\ pc = "LongQueue"
    /\ pc' = "WriteApiReplyToJsonFile"
    /\ UNCHANGED scanVars
    /\ UNCHANGED fileVars

\* if result.LongQueue { ...; return nil }
LongQueue ==
    /\ pc = "LongQueue"
    /\ IF result.LongQueue
       THEN Return("nil")
       ELSE pc' = "WriteApiReplyToJsonFile" /\ UNCHANGED ret
    /\ UNCHANGED <<isDebrickedOptions, o, dOptions, e, now, cwd, chdirs, enterprise, gitMetaObject,
                   log, scanErr, errStage, result, uploaderOptions, rendered, failPipeline, verdict>>
    /\ UNCHANGED fileVars

WriteApiReplyToJsonFileAlways ==
    /\ pc = "WriteApiReplyToJsonFile"
    /\ log' = Append(log, Call("os.WriteFile", dOptions.JsonFilePath, <<>>, <<>>))
    /\ pc' = "Rules"
    /\ UNCHANGED <<isDebrickedOptions, o, dOptions, e, now, cwd, chdirs, enterprise, gitMetaObject,
                   scanErr, errStage, result, uploaderOptions, rendered, failPipeline,
                   verdict, ret>>
    /\ UNCHANGED fileVars

\* WriteApiReplyToJsonFile(dOptions, result)
WriteApiReplyToJsonFile ==
    /\ pc = "WriteApiReplyToJsonFile"
    /\ log' = IF dOptions.JsonFilePath # ""
              THEN Append(log, Call("os.WriteFile", dOptions.JsonFilePath, <<>>, <<>>))
              ELSE log
    /\ pc' = "Rules"
    /\ UNCHANGED <<isDebrickedOptions, o, dOptions, e, now, cwd, chdirs, enterprise, gitMetaObject,
                   scanErr, errStage, result, uploaderOptions, rendered, failPipeline, verdict, ret>>
    /\ UNCHANGED fileVars

\* for _, rule := range result.AutomationRules { Render; failPipeline = ... }
RenderRule ==
    /\ pc = "Rules"
    /\ rendered < Len(result.AutomationRules)
    /\ rendered' = rendered + 1
    /\ failPipeline' = failPipelineStep(failPipeline, result.AutomationRules[rendered + 1])
    /\ UNCHANGED <<pc, isDebrickedOptions, o, dOptions, e, now, cwd, chdirs, enterprise, gitMetaObject,
                   log, scanErr, errStage, result, uploaderOptions, verdict, ret>>
    /\ UNCHANGED fileVars

VerdictAtFirstFailure ==
    /\ pc = "Rules"
    /\ rendered = Len(result.AutomationRules) \/ failPipeline
    /\ verdict' = IF failPipeline THEN "fail" ELSE "pass"
    /\ Return(IF failPipeline THEN FailPipelineErr ELSE "nil")
    /\ UNCHANGED <<isDebrickedOptions, o, dOptions, e, now, cwd, chdirs, enterprise, gitMetaObject,
                   log, scanErr, errStage, result, uploaderOptions, rendered, failPipeline>>
    /\ UNCHANGED fileVars

\* if failPipeline { return FailPipelineErr }; return nil
Verdict ==
    /\ pc = "Rules"
    /\ rendered = Len(result.AutomationRules)
    /\ verdict' = IF failPipeline THEN "fail" ELSE "pass"
    /\ Return(IF failPipeline THEN FailPipelineErr ELSE "nil")
    /\ UNCHANGED <<isDebrickedOptions, o, dOptions, e, now, cwd, chdirs, enterprise, gitMetaObject,
                   log, scanErr, errStage, result, uploaderOptions, rendered, failPipeline>>
    /\ UNCHANGED fileVars

Next ==
    \/ TypeAssert
    \/ Find
    \/ MapEnv
    \/ CommitName
    \/ SetWD
    \/ NewMetaObject
    \/ scanResolve
    \/ scanFingerprint
    \/ CallGraph
    \/ GetGroups
    \/ Upload
    \/ scanReportSBOM
    \/ LongQueue
    \/ WriteApiReplyToJsonFile
    \/ RenderRule
    \/ Verdict

Spec == Init /\ [][Next]_vars

---------------------------------------------------------------------------
(* MapEnvToOptions on its own: every combination of supplied and detected fields *)

MapOptions ==
    { [ZeroOptions EXCEPT
          !.RepositoryName = r, !.CommitName = c, !.BranchName = b,
          !.CommitAuthor = a, !.RepositoryUrl = u, !.IntegrationName = i, !.Path = p]
      : r \in {"", "repo"}, c \in {"", "c0"}, b \in {"", "main"}, a \in {"", "author"},
        u \in {"", "url"}, i \in {"CLI", "custom", ""}, p \in {"", "sub"} }

MapEnvs ==
    [Repository : {"", "erepo"}, Commit : {"", "ecommit"}, Branch : {"", "ebranch"},
     Author : {"", "eauthor"}, RepositoryUrl : {"", "eurl"}, Integration : {"", "ci"},
     Filepath : {"", "edir"}]

InitMap ==
    /\ pc = "MapEnvToOptions.call"
    /\ isDebrickedOptions = TRUE
    /\ o \in MapOptions
    /\ e \in MapEnvs
    /\ dOptions = o
    /\ now = -1
    /\ cwd = "/wd"
    /\ chdirs = 0
    /\ enterprise = "unknown"
    /\ gitMetaObject = NoMeta
    /\ log = <<>>
    /\ scanErr = "nil"
    /\ errStage = "none"
    /\ result = NoResult
    /\ uploaderOptions = NoUploaderOptions
    /\ rendered = 0
    /\ failPipeline = FALSE
    /\ verdict = "none"
    /\ ret = "running"
    /\ ExcludedIdle
    /\ ExclusionsIdle

MapCall ==
    /\ pc = "MapEnvToOptions.call"
    /\ dOptions' = MapEnvToOptions(dOptions, e)
    /\ pc' = "MapEnvToOptions.return"
    /\ UNCHANGED <<isDebrickedOptions, o, e, now, cwd, chdirs, enterprise, gitMetaObject, log,
                   scanErr, errStage, result, uploaderOptions, rendered, failPipeline,
                   verdict, ret>>
    /\ UNCHANGED fileVars

NextMap == MapCall

SpecMap == InitMap /\ [][NextMap]_vars

---------------------------------------------------------------------------
(* The path classifier *)

\* A path is the sequence of its segments and a segment the sequence of its
\* characters, so a path is in separator-normalised form by construction.
\* A pattern is a path whose characters may be "*" and "?"; the segment
\* <<"*", "*">> is the doublestar.  Character classes and alternations are
\* not modelled.
DoubleStar == <<"*", "*">>

\* Segment names: n = node_modules, v = vendor, a and b = plain directories,
\* p.j = package.json, c.j = composer.json.
SegN == <<"n">>
SegA == <<"a">>
SegB == <<"b">>
SegPJ == <<"p", ".", "j">>
SegCJ == <<"c", ".", "j">>
SegStarJ == <<"*", ".", "j">>
SegStar == <<"*">>

\* `*` matches any run of characters of the segment, `?` one character.
RECURSIVE SegmentMatch(_, _)
SegmentMatch(pat, seg) ==
    IF pat = <<>> THEN seg = <<>>
    ELSE IF Head(pat) = "*"
         THEN SegmentMatch(Tail(pat), seg)
              \/ (seg # <<>> /\ SegmentMatch(pat, Tail(seg)))
         ELSE /\ seg # <<>>
              /\ Head(pat) = "?" \/ Head(pat) = Head(seg)
              /\ SegmentMatch(Tail(pat), Tail(seg))

\* Matching that is not anchored: path segments may be skipped before a
\* literal pattern segment.
RECURSIVE MatchSkippingSegments(_, _)
MatchSkippingSegments(pattern, name) ==
    IF pattern = <<>> THEN name = <<>>
    ELSE IF Head(pattern) = DoubleStar
         THEN MatchSkippingSegments(Tail(pattern), name)
              \/ (name # <<>> /\ MatchSkippingSegments(pattern, Tail(name)))
         ELSE /\ name # <<>>
              /\ \/ /\ SegmentMatch(Head(pattern), Head(name))
                    /\ MatchSkippingSegments(Tail(pattern), Tail(name))
                 \/ MatchSkippingSegments(pattern, Tail(name))

\* `**` matches zero or more whole segments; any other pattern segment
\* matches exactly one segment.
RECURSIVE Match(_, _)
Match(pattern, name) ==
    IF pattern = <<>> THEN name = <<>>
    ELSE IF Head(pattern) = DoubleStar
         THEN Match(Tail(pattern), name)
              \/ (name # <<>> /\ Match(pattern, Tail(name)))
         ELSE /\ name # <<>>
              /\ SegmentMatch(Head(pattern), Head(name))
              /\ Match(Tail(pattern), Tail(name))

AnyMatch(patterns, name) == \E i \in DOMAIN patterns : Match(patterns[i], name)

ExcludedExclusionsFirst(excl, incl, name) ==
    IF AnyMatch(excl, name) THEN TRUE ELSE FALSE

ExcludedFirstPatternOnly(excl, incl, name) ==
    IF incl # <<>> /\ Match(incl[1], name) THEN FALSE
    ELSE IF excl # <<>> /\ Match(excl[1], name) THEN TRUE
    ELSE FALSE

\* Excluded(exclusions, inclusions, path): inclusions are tried first.
Excluded(excl, incl, name) ==
    IF AnyMatch(incl, name) THEN FALSE
    ELSE IF AnyMatch(excl, name) THEN TRUE
    ELSE FALSE

\* **/node_modules/**, **/package.json, composer.json, **/composer.json, */*.json
Patterns ==
    { <<DoubleStar, SegN, DoubleStar>>,
      <<DoubleStar, SegPJ>>,
      <<SegCJ>>,
      <<DoubleStar, SegCJ>>,
      <<SegStar, SegStarJ>> }

Paths ==
    { <<SegN, SegPJ>>,
      <<SegA, SegB, SegN, SegPJ>>,
      <<SegN>>,
      <<SegCJ>>,
      <<SegPJ>>,
      <<SegA, SegCJ>>,
      <<SegA, SegB, SegCJ>>,
      <<SegA, SegB>> }

PatternLists == SeqsUpTo(Patterns, MaxPatterns)

InitExcluded ==
    /\ pc = "Excluded.call"
    /\ exclusions \in PatternLists
    /\ inclusions \in PatternLists
    /\ path \in Paths
    /\ excluded = FALSE
    /\ isDebrickedOptions = FALSE
    /\ o = ZeroOptions
    /\ ScanIdle
    /\ ExclusionsIdle

ExcludedCall ==
    /\ pc = "Excluded.call"
    /\ excluded' = Excluded(exclusions, inclusions, path)
    /\ pc' = "Excluded.return"
    /\ UNCHANGED <<exclusions, inclusions, path>>
    /\ UNCHANGED envVars
    /\ UNCHANGED scanVars

NextExcluded == ExcludedCall

SpecExcluded == InitExcluded /\ [][NextExcluded]_vars

---------------------------------------------------------------------------
(* The effective exclusion set *)

\* The override value is a sequence of pieces of text; the piece "," is a
\* comma and no other piece holds one.  The empty sequence is the empty string.
Comma == ","

EnvAtoms == {Comma, " ", "*/**.lock", "**/node_modules/**", "*\\**.ex"}

\* The text a sequence of pieces spells.
RECURSIVE Concat(_)
Concat(atoms) == IF atoms = <<>> THEN "" ELSE Head(atoms) \o Concat(Tail(atoms))

\* strings.Split(value, ","): the texts between the commas, empty ones included.
RECURSIVE Split(_)
Split(value) ==
    IF \A i \in DOMAIN value : value[i] # Comma
    THEN <<Concat(value)>>
    ELSE LET i == CHOOSE k \in DOMAIN value :
                      value[k] = Comma /\ \A j \in 1..(k - 1) : value[j] # Comma
         IN <<Concat(SubSeq(value, 1, i - 1))>> \o Split(SubSeq(value, i + 1, Len(value)))

\* os.Getenv: the value of a set variable, the empty string for an unset one.
Getenv(set, value) == IF set THEN value ELSE <<>>

\* The fixed excludes Exclusions() adds to DefaultExclusions().
AdditionalExclusions == <<JoinStars("bower_components"), JoinStars(".vscode-test")>>

ExclusionsMerged(set, value) ==
    IF Getenv(set, value) # <<>>
    THEN DefaultExclusions \o AdditionalExclusions \o Split(Getenv(set, value))
    ELSE DefaultExclusions \o AdditionalExclusions

\* Exclusions(): the override split on commas when it is non-empty, the
\* defaults otherwise.
Exclusions(set, value) ==
    IF Getenv(set, value) # <<>>
    THEN Split(Getenv(set, value))
    ELSE DefaultExclusions \o AdditionalExclusions

\* Largest number of pieces in the override value.
MaxEnvLen == 5

InitExclusions ==
    /\ pc = "Exclusions.call"
    /\ envSet \in BOOLEAN
    /\ envValue \in (IF envSet THEN SeqsUpTo(EnvAtoms, MaxEnvLen) ELSE {<<>>})
    /\ exclusionsOut = <<>>
    /\ isDebrickedOptions = FALSE
    /\ o = ZeroOptions
    /\ ScanIdle
    /\ ExcludedIdle

ExclusionsCall ==
    /\ pc = "Exclusions.call"
    /\ exclusionsOut' = Exclusions(envSet, envValue)
    /\ pc' = "Exclusions.return"
    /\ UNCHANGED <<envSet, envValue>>
    /\ UNCHANGED exclVars
    /\ UNCHANGED scanVars

NextExclusions == ExclusionsCall

SpecExclusions == InitExclusions /\ [][NextExclusions]_vars

---------------------------------------------------------------------------
(* Vocabulary of the properties *)

\* The collaborator call that is the work of each stage, in pipeline order.
StageOps == <<"Resolve", "FingerprintFiles", "GenerateWithTimer", "GetGroups",
              "Upload", "ReportSBOM">>
Rank(op) == CHOOSE i \in DOMAIN StageOps : StageOps[i] = op
IsStageOp(c) == \E i \in DOMAIN StageOps : StageOps[i] = c.op

\* Scan got as far as calling scan.
ScanEntered == pc = "done" /\ ret \notin {BadOptsErr, "ChdirErr", "GitErr"}

\* Upload returned a result and no error.
UploadReturnedResult == Called("Upload") /\ errStage # "Upload"

\* OR over the rules of (rule.triggered AND rule.failPipeline)
ShouldFailPipeline(rules) ==
    \E i \in DOMAIN rules : rules[i].Triggered /\ rules[i].FailPipeline

NoRuleTriggered(rules) == \A i \in DOMAIN rules : ~rules[i].Triggered

\* The run reached the verdict: scan returned a result that is not long queue.
ReachedVerdict == UploadReturnedResult /\ errStage = "none" /\ ~result.LongQueue

---------------------------------------------------------------------------
(* Properties *)

C2_VerdictForEveryReturnedRuleSet ==
    (pc = "done" /\ UploadReturnedResult) =>
        /\ (ret = FailPipelineErr) = ShouldFailPipeline(result.AutomationRules)
        /\ NoRuleTriggered(result.AutomationRules) => ret # FailPipelineErr
        /\ ShouldFailPipeline(result.AutomationRules) => ret = FailPipelineErr

\* C2 amended: in the runs that reach the verdict (ReportSBOM did not fail,
\* the result is not long queue) the verdict is the OR over the rules of
\* (triggered AND failPipeline) and Scan returns FailPipelineErr exactly when
\* it is true; in every other run with a result Scan never returns
\* FailPipelineErr.
C2_VerdictWhenReached ==
    (pc = "done" /\ UploadReturnedResult) =>
        /\ ReachedVerdict =>
              /\ verdict # "none"
              /\ failPipeline = ShouldFailPipeline(result.AutomationRules)
              /\ (ret = FailPipelineErr) = ShouldFailPipeline(result.AutomationRules)
        /\ ~ReachedVerdict => ret # FailPipelineErr
        /\ NoRuleTriggered(result.AutomationRules) => ret # FailPipelineErr

C2_Witness ==
    /\ pc = "done"
    /\ ReachedVerdict
    /\ Len(result.AutomationRules) = 2
    /\ result.AutomationRules[1] = [Triggered |-> TRUE, FailPipeline |-> FALSE]
    /\ result.AutomationRules[2] = [Triggered |-> TRUE, FailPipeline |-> TRUE]
    /\ ret = FailPipelineErr

\* C3: a path that some inclusion pattern matches is not excluded, whatever
\* the exclusion list matches.
C3_InclusionsDominate ==
    (pc = "Excluded.return" /\ AnyMatch(inclusions, path)) => excluded = FALSE

\* node_modules/package.json with exclusions [**/node_modules/**] and
\* inclusions [**/package.json]
C3_Witness ==
    /\ pc = "Excluded.return"
    /\ path = <<SegN, SegPJ>>
    /\ exclusions = << <<DoubleStar, SegN, DoubleStar>> >>
    /\ inclusions = << <<DoubleStar, SegPJ>> >>
    /\ Match(exclusions[1], path)
    /\ Excluded(exclusions, <<>>, path)
    /\ excluded = FALSE

\* C4 as stated: the error of a stage is what Scan returns, except
\* NoResErr from Upload with PassOnTimeOut, which becomes nil.
C4_StageErrorsUnmodified ==
    (pc = "done" /\ errStage # "none") =>
        \/ ret = scanErr
        \/ /\ errStage = "Upload"
           /\ scanErr = NoResErr
           /\ dOptions.PassOnTimeOut
           /\ ret = "nil"

\* C5: NoResErr from Upload ends Scan with nil when PassOnTimeOut is set,
\* with no JSON file written, no rule rendered and no verdict computed;
\* without PassOnTimeOut Scan returns NoResErr.
C5_PassOnTimeOut ==
    (pc = "done" /\ errStage = "Upload" /\ scanErr = NoResErr) =>
        /\ ~Called("os.WriteFile")
        /\ rendered = 0
        /\ verdict = "none"
        /\ ret = IF dOptions.PassOnTimeOut THEN "nil" ELSE NoResErr

C5_Witness ==
    /\ pc = "done"
    /\ errStage = "Upload"
    /\ scanErr = NoResErr
    /\ dOptions.PassOnTimeOut
    /\ dOptions.JsonFilePath # ""
    /\ ret = "nil"

\* C6 as stated: a long queue result makes Scan return nil, with no JSON
\* file written and no verdict.
C6_LongQueueAlwaysNil ==
    (pc = "done" /\ UploadReturnedResult /\ result.LongQueue) =>
        /\ ret = "nil"
        /\ ~Called("os.WriteFile")
        /\ verdict = "none"
        /\ ret # FailPipelineErr

\* C6 amended: after a long queue result ReportSBOM still runs; Scan returns
\* nil when ReportSBOM returned no error and handleScanError of ReportSBOM's
\* error otherwise; in both cases no JSON file is written, no rule is
\* rendered, no verdict is computed and FailPipelineErr is not returned.
C6_LongQueueSkipsVerdict ==
    (pc = "done" /\ UploadReturnedResult /\ result.LongQueue) =>
        /\ errStage \in {"none", "ReportSBOM"}
        /\ errStage = "none" => ret = "nil"
        /\ errStage = "ReportSBOM" =>
              ret = handleScanError(scanErr, dOptions.PassOnTimeOut)
        /\ dOptions.SBOM = "" => ret = "nil"
        /\ ~Called("os.WriteFile")
        /\ rendered = 0
        /\ verdict = "none"
        /\ ret # FailPipelineErr

C6_Witness ==
    /\ pc = "done"
    /\ UploadReturnedResult
    /\ result.LongQueue
    /\ ShouldFailPipeline(result.AutomationRules)
    /\ dOptions.JsonFilePath # ""
    /\ Called("ReportSBOM")
    /\ ret = "nil"

\* C7: the stages run in the order Resolve, Fingerprint, CallGraph,
\* GroupFiles, Upload, ReportSBOM, each at most once; GroupFiles runs in
\* every run of scan in which Resolve, Fingerprint and CallGraph did not
\* fail, and Upload in every run in which GroupFiles did not fail either; a
\* stage whose toggle is off is not called and returns no error.
C7_StageOrder ==
    /\ \A i, j \in DOMAIN log :
          (i < j /\ IsStageOp(log[i]) /\ IsStageOp(log[j])) =>
              Rank(log[i].op) < Rank(log[j].op)
    /\ \A i \in DOMAIN StageOps : Calls(StageOps[i]) <= 1
    /\ (ScanEntered /\ errStage \notin {"Resolve", "Fingerprint", "CallGraph"}) =>
          Called("GetGroups")
    /\ (ScanEntered /\ errStage \notin PreUploadStages) => Called("Upload")
    /\ ~o.Resolve => (~Called("Resolve") /\ errStage # "Resolve")
    /\ ~o.Fingerprint =>
          /\ ~Called("IsEnterpriseCustomer")
          /\ ~Called("FingerprintFiles")
          /\ ~Called("fingerprints.ToFile")
          /\ errStage # "Fingerprint"
    /\ ~o.CallGraph => (~Called("GenerateWithTimer") /\ errStage # "CallGraph")
    /\ o.SBOM = "" => (~Called("ReportSBOM") /\ errStage # "ReportSBOM")

C7_Witness ==
    /\ pc = "done"
    /\ ~o.Resolve /\ ~o.Fingerprint /\ ~o.CallGraph /\ o.SBOM = ""
    /\ isDebrickedOptions
    /\ Called("GetGroups")
    /\ Called("Upload")
    /\ verdict = "pass"
    /\ ret = "nil"

\* The calls that are handed the root path.
RootOps == {"git.NewMetaObject", "Resolve", "FingerprintFiles", "GenerateWithTimer",
            "GetGroups", "GetConfigPath"}

\* C8: the working directory is changed once, before Resolve, to the
\* absolute form of the root, and from then on the root is "": every stage
\* is handed the current directory ("" and, for the call graph generator,
\* the "." scan derives from ""); when the change fails Scan returns that
\* error and no stage runs.
C8_WorkingDirectoryOnce ==
    /\ chdirs <= 1
    /\ \A i \in DOMAIN log :
          log[i].op \in RootOps =>
              /\ chdirs = 1
              /\ log[i].path = IF log[i].op = "GenerateWithTimer" THEN "." ELSE ""
    /\ Called("Upload") => uploaderOptions.GitMetaObject.Path = ""
    /\ chdirs = 1 =>
          /\ dOptions.Path = ""
          /\ cwd = Abs("/wd", MapEnvToOptions(o, e).Path)
    /\ chdirs = 0 => cwd = "/wd"
    /\ ret = "ChdirErr" =>
          /\ pc = "done"
          /\ chdirs = 0
          /\ \A i \in DOMAIN log : log[i].op = "ciService.Find"

C8_Witness ==
    /\ pc = "done"
    /\ o.Path = "sub"
    /\ cwd = "/wd/sub"
    /\ \A i \in 1..5 : Called(StageOps[i])
    /\ Called("GetConfigPath")

\* git.NewMetaObject returned the meta object.
MetaBuilt == Called("git.NewMetaObject") /\ ret # "GitErr"

\* C9 as stated: with GenerateCommitName set and no CommitName supplied, the
\* commit name of the git meta object and of the upload is
\* generated-<seconds>, whatever the CI environment holds.
C9_GeneratedWhateverEnv ==
    (isDebrickedOptions /\ o.GenerateCommitName /\ o.CommitName = "" /\ MetaBuilt) =>
        /\ now >= 0
        /\ gitMetaObject.CommitName = GenerateCommitNameTimestamp(now)
        /\ Called("Upload") =>
              uploaderOptions.GitMetaObject.CommitName = GenerateCommitNameTimestamp(now)

\* C9 amended: with GenerateCommitName set and no CommitName supplied, the
\* commit name is generated-<seconds> when the CI environment's commit is
\* empty too; when the environment has a commit, that commit is the name and
\* the clock is not read.
C9_GeneratedUnlessEnvCommit ==
    (isDebrickedOptions /\ o.GenerateCommitName /\ o.CommitName = "" /\ MetaBuilt) =>
        LET name == IF e.Commit = "" THEN GenerateCommitNameTimestamp(now) ELSE e.Commit
        IN /\ (e.Commit = "") = (now >= 0)
           /\ gitMetaObject.CommitName = name
           /\ Called("Upload") => uploaderOptions.GitMetaObject.CommitName = name

C9_Witness ==
    /\ o.GenerateCommitName
    /\ o.CommitName = ""
    /\ e.Commit = ""
    /\ e.Repository # ""
    /\ now = 1
    /\ Called("Upload")
    /\ uploaderOptions.GitMetaObject.CommitName = "generated-1"

\* C10: MapEnvToOptions keeps every non-empty repository, commit, branch,
\* author, repository url and path, and gives an empty one the environment's
\* field; the integration name changes only when it is "CLI", and then to
\* the environment's integration; no other field changes.
C10_MapEnvKeepsSupplied ==
    pc = "MapEnvToOptions.return" =>
        /\ dOptions.RepositoryName = IF o.RepositoryName # "" THEN o.RepositoryName ELSE e.Repository
        /\ dOptions.CommitName = IF o.CommitName # "" THEN o.CommitName ELSE e.Commit
        /\ dOptions.BranchName = IF o.BranchName # "" THEN o.BranchName ELSE e.Branch
        /\ dOptions.CommitAuthor = IF o.CommitAuthor # "" THEN o.CommitAuthor ELSE e.Author
        /\ dOptions.RepositoryUrl = IF o.RepositoryUrl # "" THEN o.RepositoryUrl ELSE e.RepositoryUrl
        /\ dOptions.Path = IF o.Path # "" THEN o.Path ELSE e.Filepath
        /\ dOptions.IntegrationName # o.IntegrationName =>
              (o.IntegrationName = "CLI" /\ dOptions.IntegrationName = e.Integration)
        /\ o.IntegrationName # "CLI" => dOptions.IntegrationName = o.IntegrationName
        /\ [dOptions EXCEPT !.RepositoryName = "", !.CommitName = "", !.BranchName = "",
                            !.CommitAuthor = "", !.RepositoryUrl = "", !.Path = "",
                            !.IntegrationName = ""]
           = [o EXCEPT !.RepositoryName = "", !.CommitName = "", !.BranchName = "",
                       !.CommitAuthor = "", !.RepositoryUrl = "", !.Path = "",
                       !.IntegrationName = ""]

C10_Witness ==
    /\ pc = "MapEnvToOptions.return"
    /\ o.RepositoryName = "repo" /\ e.Repository = "erepo"
    /\ o.CommitName = "" /\ e.Commit = "ecommit"
    /\ o.IntegrationName = "custom" /\ e.Integration = "ci"
    /\ o.Path = "" /\ e.Filepath = ""
    /\ dOptions.RepositoryName = "repo"
    /\ dOptions.CommitName = "ecommit"
    /\ dOptions.IntegrationName = "custom"

\* The positions of the commas of the override value, and the bounds of its
\* k-th piece: after the (k-1)-th comma, before the k-th.
CommaPositions == { i \in DOMAIN envValue : envValue[i] = Comma }
NthComma(k) ==
    IF k = 0 THEN 0
    ELSE IF k > Cardinality(CommaPositions) THEN Len(envValue) + 1
    ELSE CHOOSE i \in CommaPositions :
             Cardinality({ j \in CommaPositions : j <= i }) = k

\* C11: a set, non-empty override gives exactly the texts between its
\* commas, in order and verbatim (one more than there are commas), and a
\* default pattern only where the override itself spells it.
C11_OverrideSplitVerbatim ==
    (pc = "Exclusions.return" /\ envSet /\ envValue # <<>>) =>
        /\ Len(exclusionsOut) = Cardinality(CommaPositions) + 1
        /\ \A k \in DOMAIN exclusionsOut :
              exclusionsOut[k] =
                  Concat(SubSeq(envValue, NthComma(k - 1) + 1, NthComma(k) - 1))
        /\ \A d \in DOMAIN DefaultExclusions :
              (\E k \in DOMAIN exclusionsOut : exclusionsOut[k] = DefaultExclusions[d])
                  => \E i \in DOMAIN envValue : envValue[i] = DefaultExclusions[d]
        /\ \A k \in DOMAIN exclusionsOut :
              exclusionsOut[k] \notin {AdditionalExclusions[1], AdditionalExclusions[2]}

\* The override of TestExclusionsWithTokenEnvVariable
C11_Witness ==
    /\ pc = "Exclusions.return"
    /\ envSet
    /\ envValue = <<"*/**.lock", Comma, "**/node_modules/**", Comma, "*\\**.ex">>
    /\ exclusionsOut = <<"*/**.lock", "**/node_modules/**", "*\\**.ex">>

\* C12: an override that is set to the empty string gives the default list
\* of TestExclusionsWithEmptyTokenEnvVariable, in that order.
C12_EmptyOverrideGivesDefaults ==
    (pc = "Exclusions.return" /\ envSet /\ envValue = <<>>) =>
        exclusionsOut = <<"**/node_modules/**", "**/vendor/**", "**/.git/**", "**/obj/**",
                          "**/bower_components/**", "**/.vscode-test/**">>

C12_Witness ==
    /\ pc = "Exclusions.return"
    /\ envSet
    /\ envValue = <<>>
    /\ Len(exclusionsOut) = 6
    /\ exclusionsOut[1] = "**/node_modules/**"
    /\ exclusionsOut[6] = "**/.vscode-test/**"

\* C13: when the options value is not a DebrickedOptions, Scan does nothing
\* but return BadOptsErr: no CI detection, no environment backfill, no
\* change of working directory, no call of any stage, nothing rendered.
C13_BadOptionsAbortFirst ==
    ~isDebrickedOptions =>
        /\ pc \in {"Scan", "done"}
        /\ pc = "done" => ret = BadOptsErr
        /\ log = <<>>
        /\ e = ZeroEnv
        /\ dOptions = ZeroOptions
        /\ chdirs = 0
        /\ cwd = "/wd"
        /\ gitMetaObject = NoMeta
        /\ errStage = "none"
        /\ enterprise = "unknown"
        /\ rendered = 0
        /\ verdict = "none"

C13_Witness ==
    /\ ~isDebrickedOptions
    /\ pc = "done"
    /\ ret = BadOptsErr
    /\ log = <<>>

\* C14: with no inclusions, an exclusion pattern matches whole paths only.
\* **/c.j excludes exactly the paths whose last segment is c.j, **/n/**
\* exactly the paths with a segment n, the bare pattern c.j only the path
\* c.j itself (not a/b/c.j), and an empty exclusion list excludes nothing.
C14_WholePathMatch ==
    (pc = "Excluded.return" /\ inclusions = <<>>) =>
        /\ exclusions = <<>> => ~excluded
        /\ ( /\ \E i \in DOMAIN exclusions : exclusions[i] = <<DoubleStar, SegCJ>>
             /\ path \in {<<SegCJ>>, <<SegA, SegCJ>>, <<SegA, SegB, SegCJ>>} ) => excluded
        /\ ( /\ \E i \in DOMAIN exclusions : exclusions[i] = <<DoubleStar, SegN, DoubleStar>>
             /\ path \in {<<SegN, SegPJ>>, <<SegA, SegB, SegN, SegPJ>>} ) => excluded
        /\ exclusions = << <<DoubleStar, SegCJ>> >> =>
              (excluded <=> path[Len(path)] = SegCJ)
        /\ exclusions = << <<DoubleStar, SegN, DoubleStar>> >> =>
              (excluded <=> \E i \in DOMAIN path : path[i] = SegN)
        /\ exclusions = << <<SegCJ>> >> => (excluded <=> path = <<SegCJ>>)

\* Excluded(["composer.json"], [], "sub/dir/composer.json") == false
C14_Witness ==
    /\ pc = "Excluded.return"
    /\ inclusions = <<>>
    /\ exclusions = << <<SegCJ>> >>
    /\ path = <<SegA, SegB, SegCJ>>
    /\ ~excluded

\* C15: a verdict is computed, and the pipeline-failure condition
\* returned, only after every rule of the result has been rendered; while
\* rules remain to be rendered Scan has not returned.
C15_AllRulesRenderedBeforeVerdict ==
    /\ verdict # "none" => rendered = Len(result.AutomationRules)
    /\ ret = FailPipelineErr => rendered = Len(result.AutomationRules)
    /\ (pc = "done" /\ ReachedVerdict) =>
          /\ verdict # "none"
          /\ rendered = Len(result.AutomationRules)
    /\ pc = "Rules" => ret = "running"
    /\ rendered <= Len(result.AutomationRules)

\* The first of two rules already fails the pipeline; both are rendered.
C15_Witness ==
    /\ pc = "done"
    /\ ret = FailPipelineErr
    /\ Len(result.AutomationRules) = 2
    /\ result.AutomationRules[1].Triggered
    /\ result.AutomationRules[1].FailPipeline
    /\ rendered = 2

\* C16: os.WriteFile is called only with a configured JSON path and only
\* after Upload and ReportSBOM succeeded with a result that is not long
\* queue, at most once; with a path it has been called by the time the rules
\* are evaluated, so also when Scan returns FailPipelineErr.
C16_JsonFileWritten ==
    /\ Called("os.WriteFile") =>
          /\ dOptions.JsonFilePath # ""
          /\ UploadReturnedResult
          /\ errStage = "none"
          /\ pc \in {"Rules", "done"}
          /\ ~result.LongQueue
          /\ log[Len(log)] = Call("os.WriteFile", dOptions.JsonFilePath, <<>>, <<>>)
    /\ Calls("os.WriteFile") <= 1
    /\ ((pc = "Rules" \/ verdict # "none") /\ dOptions.JsonFilePath # "")
          => Called("os.WriteFile")
    /\ dOptions.JsonFilePath = "" => ~Called("os.WriteFile")

C16_Witness ==
    /\ pc = "done"
    /\ ret = FailPipelineErr
    /\ dOptions.JsonFilePath = "out.json"
    /\ Called("os.WriteFile")

\* The orderings of a pattern list, and the lists that repeat one of its
\* patterns.
IndexOrders ==
    [ n \in 0..MaxPatterns |->
        { g \in [1..n -> 1..n] : \A i, j \in 1..n : g[i] = g[j] => i = j } ]
Orderings(s) == { [i \in DOMAIN s |-> s[f[i]]] : f \in IndexOrders[Len(s)] }
Repeats(s) == { Append(s, s[i]) : i \in DOMAIN s } \cup { <<s[i]>> \o s : i \in DOMAIN s }

\* C17: the outcome of Excluded is the same for every ordering of the
\* exclusion list and of the inclusion list, and when a pattern of either
\* list is repeated.
C17_OrderIndependent ==
    pc = "Excluded.return" =>
        /\ \A x \in Orderings(exclusions) : \A y \in Orderings(inclusions) :
              Excluded(x, y, path) = excluded
        /\ \A x \in Repeats(exclusions) : Excluded(x, inclusions, path) = excluded
        /\ \A y \in Repeats(inclusions) : Excluded(exclusions, y, path) = excluded

\* Only the second exclusion matches, and only the second inclusion would.
C17_Witness ==
    /\ pc = "Excluded.return"
    /\ exclusions = << <<SegCJ>>, <<DoubleStar, SegCJ>> >>
    /\ inclusions = << <<DoubleStar, SegPJ>>, <<SegCJ>> >>
    /\ path = <<SegA, SegB, SegCJ>>
    /\ excluded

\* C18: when ReportSBOM returned an error after a successful Upload, Scan
\* returns that error: no JSON file is written, no rule is rendered, no
\* verdict is computed and FailPipelineErr is not returned.
C18_SBOMFailureDiscardsResult ==
    (pc = "done" /\ errStage = "ReportSBOM") =>
        /\ ret = scanErr
        /\ ret \notin {"nil", FailPipelineErr}
        /\ ~Called("os.WriteFile")
        /\ rendered = 0
        /\ verdict = "none"

\* C19: FingerprintFiles is given the caller's lists followed by the
\* fingerprint defaults; Resolve, GenerateWithTimer, GetGroups and
\* GetConfigPath are given exactly the caller's lists, whether or not
\* FingerprintFiles was called before them.
C19_FingerprintDefaultsStayLocal ==
    /\ \A i \in DOMAIN log :
          /\ log[i].op = "FingerprintFiles" =>
                /\ log[i].excl = o.Exclusions \o DefaultExclusionsFingerprint
                /\ log[i].incl = o.Inclusions \o DefaultInclusionsFingerprint
          /\ log[i].op \in {"Resolve", "GenerateWithTimer", "GetGroups", "GetConfigPath"} =>
                /\ log[i].excl = o.Exclusions
                /\ log[i].incl = o.Inclusions
    /\ pc \notin {"Scan", "Find"} /\ isDebrickedOptions =>
          /\ dOptions.Exclusions = o.Exclusions
          /\ dOptions.Inclusions = o.Inclusions

\* GetGroups and the configuration lookup run after FingerprintFiles.
C19_Witness ==
    /\ Called("FingerprintFiles")
    /\ Called("GetGroups")
    /\ Called("GetConfigPath")
    /\ Called("GenerateWithTimer")
    /\ o.Exclusions # <<>>

\* C20: when the Fingerprint toggle is on and the client is not an
\* enterprise customer, FingerprintFiles and fingerprints.ToFile are never
\* called, the Fingerprint stage returns no error, and the pipeline goes on
\* to CallGraph, GetGroups and Upload.
C20_NotEnterpriseSkipsFingerprint ==
    enterprise = "no" =>
        /\ dOptions.Fingerprint
        /\ Calls("IsEnterpriseCustomer") = 1
        /\ ~Called("FingerprintFiles")
        /\ ~Called("fingerprints.ToFile")
        /\ errStage # "Fingerprint"
        /\ pc # "scanFingerprint"
        /\ pc = "done" =>
              /\ dOptions.CallGraph => Called("GenerateWithTimer")
              /\ errStage # "CallGraph" => Called("GetGroups")
              /\ errStage \notin {"CallGraph", "GroupFiles"} => Called("Upload")

C20_Witness ==
    /\ enterprise = "no"
    /\ pc = "done"
    /\ Called("IsEnterpriseCustomer")
    /\ Called("Upload")
    /\ ret = "nil"

====
